---- MODULE Spec2Model ----
(***************************************************************************)
(* Model of the conversation memory (RAG/conversation) and of the          *)
(* persistent vector index (RAG/storage/simple_vector_store.py).           *)
(*                                                                         *)
(* SpecHist : one conversation driven through ConversationManager.        *)
(*            add_message and ContextManager.update_summary.               *)
(* SpecChat : one conversation driven through ConversationAssistant.chat.  *)
(* SpecStream : one conversation driven through two stream_chat generators.*)
(* SpecCrash : the vector index with snapshot writes that fail part-way.   *)
(* SpecTurn : one conversation driven through chat and stream_chat.        *)
(* SpecRestore : one conversation saved and read back after a restart.     *)
(* SpecVec  : one SimpleVectorStore created on an empty directory and      *)
(*            driven through add_documents, search and delete.             *)
(* SpecMgr  : one ConversationManager over one storage directory, several  *)
(*            conversation ids, and process restarts.                      *)
(***************************************************************************)
EXTENDS Integers, Sequences, FiniteSets, TLC

\* ------------------------------------------------------------------ bounds
MaxMaxTurns == 2        \* largest max_turns of a conversation (SpecHist)
MaxInterval == 2        \* largest summary_interval (SpecHist)
MaxAppends == 6         \* add_message calls per behaviour (SpecHist)
MaxSaveInterval == 2    \* largest save_interval
MaxChatTurns == 6       \* largest max_turns of a conversation (SpecChat)
MaxChatInterval == 3    \* largest summary_interval (SpecChat)
MaxChats == 7           \* chat calls per behaviour (SpecChat)
MaxDocs == 2            \* chunks held by the vector index at a time (SpecVec)
MaxBatch == 2           \* documents per add_documents call
MaxTopK == 2            \* largest top_k of a search
MaxMgrTurns == 1        \* largest max_turns of the manager's config (SpecMgr)
MaxStreamCalls == 3     \* stream_chat calls per behaviour (SpecStream)
MaxChunks == 2          \* chunks a consumer pulls from one answer stream

\* ------------------------------------------------------------ value domains
Roles == {"user", "assistant", "system"}
CompressionMethods == {"summary", "truncate"}
\* no persisted record (history.json does not exist)
Absent == [exists |-> FALSE]

\* What the Summarizer (self.llm.invoke) can do: raise, or return a text.
SummaryTexts == {"", " ", "s", " s "}
SummarizerOutcomes ==
    {[ok |-> FALSE, text |-> ""]} \cup {[ok |-> TRUE, text |-> t] : t \in SummaryTexts}

VARIABLES
    \* ConversationHistory of the conversation
    messages, summary, summaryTurn, maxTurns,
    \* ContextConfig
    compressionMethod, summaryInterval,
    \* ConversationConfig
    autoSave, saveInterval,
    \* ConversationStorage: the persisted history.json of the conversation
    stored,
    \* ConversationStorage: the conversation's entry in index.json
    indexEntry,
    \* history variables of the verification: number of add_message calls,
    \* every message ever appended, ids of the messages the summary was built from
    appended, log, covered,
    \* chat calls made, whether all of them / their Summarizer calls succeeded,
    \* and which of them made the latest summary commit
    chat,
    \* the stream_chat generators of the conversation: where each one is
    \* suspended and what it has done so far
    calls,
    \* SimpleVectorStore: the three parallel in-memory arrays
    vectors, metadataList, documents,
    \* StorageConfig.distance_metric
    distanceMetric,
    \* the three persisted artifacts (_vectors.npy, _metadata.json, _documents.pkl)
    vectorsFile, metadataFile, documentsFile,
    \* hash() of the process: the value it gives each text
    hashOf,
    \* history variable: the id add_documents returned for the chunk at each position
    assigned,
    \* ConversationManager.conversations (the cache), the history.json records
    \* of the storage directory, and the "conversations" list of index.json
    conversations, records, index,
    \* "total_conversations" of index.json
    totalConversations,
    \* the last operation and what it returned
    lastOp

histVars == <<messages, summary, summaryTurn, maxTurns, compressionMethod,
              summaryInterval, autoSave, saveInterval, stored, indexEntry,
              appended, log,
              covered, chat, calls>>

vecVars == <<vectors, metadataList, documents, distanceMetric, vectorsFile,
             metadataFile, documentsFile, hashOf, assigned>>

mgrVars == <<conversations, records, index, totalConversations>>

vars == <<histVars, vecVars, mgrVars, lastOp>>

\* --------------------------------------------------------- Python helpers
Min(a, b) == IF a < b THEN a ELSE b
Max(a, b) == IF a > b THEN a ELSE b

\* s[-k:] for k >= 0 (s[-0:] is s[0:], the whole list)
PyLast(s, k) ==
    IF k = 0 \/ k >= Len(s) THEN s ELSE SubSeq(s, Len(s) - k + 1, Len(s))

\* s[i:] for i >= 0
PyFrom(s, i) == SubSeq(s, i + 1, Len(s))

\* s[:k], k of either sign
PyTo(s, k) ==
    IF k >= 0 THEN SubSeq(s, 1, Min(k, Len(s)))
    ELSE SubSeq(s, 1, Max(Len(s) + k, 0))

\* str.strip() on the texts of SummaryTexts
Strip(t) == CASE t = " " -> "" [] t = " s " -> "s" [] OTHER -> t

\* ---------------------------------------------------- ConversationHistory
Hist == [messages |-> messages, summary |-> summary,
         summary_turn |-> summaryTurn, max_turns |-> maxTurns]

\* a trim that keeps max_turns messages instead of max_turns turns
HistoryAddMessage_HalfTrim(h, m) ==
    LET app == Append(h.messages, m)
    IN IF Len(app) > h.max_turns * 2
       THEN [h EXCEPT !.messages = PyLast(app, h.max_turns),
                      !.summary = "", !.summary_turn = 0]
       ELSE [h EXCEPT !.messages = app]

HistoryAddMessage(h, m) ==
    LET app == Append(h.messages, m)
    IN IF Len(app) > h.max_turns * 2
       THEN [h EXCEPT !.messages = PyLast(app, h.max_turns * 2),
                      !.summary = "", !.summary_turn = 0]
       ELSE [h EXCEPT !.messages = app]

GetTurns(h) == Len(h.messages) \div 2

HasSummary(h) == h.summary # "" /\ h.summary_turn > 0

\* the turn count used as a message index
GetMessagesSinceSummary_TurnAsIndex(h) ==
    IF h.summary = "" THEN h.messages ELSE PyFrom(h.messages, h.summary_turn)

GetMessagesSinceSummary(h) ==
    IF h.summary = "" THEN h.messages ELSE PyFrom(h.messages, h.summary_turn * 2)

GetRecentMessages(h, mt) == PyLast(h.messages, (IF mt = 0 THEN h.max_turns ELSE mt) * 2)

\* the summary text stored, its turn left as it was
HistoryUpdateSummary_KeepTurn(h, s, turn) == [h EXCEPT !.summary = s]

HistoryUpdateSummary(h, s, turn) == [h EXCEPT !.summary = s, !.summary_turn = turn]

ToDict(h) == [messages |-> h.messages, summary |-> h.summary,
              summary_turn |-> h.summary_turn, max_turns |-> h.max_turns]

\* --------------------------------------------------------- ContextManager
\* the role test left out
ShouldCreateSummary_NoRoleTest(h) ==
    IF compressionMethod # "summary" THEN FALSE
    ELSE IF h.messages = <<>> THEN FALSE
    ELSE IF GetTurns(h) < summaryInterval THEN FALSE
    ELSE IF HasSummary(h)
         THEN GetTurns(h) - h.summary_turn >= summaryInterval
         ELSE GetTurns(h) >= summaryInterval

\* the re-trigger test written with > for >=
ShouldCreateSummary_Strict(h) ==
    IF compressionMethod # "summary" THEN FALSE
    ELSE IF h.messages = <<>> \/ h.messages[Len(h.messages)].role = "user" THEN FALSE
    ELSE IF GetTurns(h) < summaryInterval THEN FALSE
    ELSE IF HasSummary(h)
         THEN GetTurns(h) - h.summary_turn > summaryInterval
         ELSE GetTurns(h) >= summaryInterval

ShouldCreateSummary(h) ==
    IF compressionMethod # "summary" THEN FALSE
    ELSE IF h.messages = <<>> \/ h.messages[Len(h.messages)].role = "user" THEN FALSE
    ELSE IF GetTurns(h) < summaryInterval THEN FALSE
    ELSE IF HasSummary(h)
         THEN GetTurns(h) - h.summary_turn >= summaryInterval
         ELSE GetTurns(h) >= summaryInterval

\* the messages create_incremental_summary hands to the Summarizer
MessagesToSummarize(h) ==
    IF HasSummary(h) THEN GetMessagesSinceSummary(h)
    ELSE LET end_turn == Min(summaryInterval, GetTurns(h))
         IN IF end_turn > 0 THEN PyTo(h.messages, end_turn * 2) ELSE <<>>

\* whether create_incremental_summary reaches self.llm.invoke
InvokesSummarizer(h) == MessagesToSummarize(h) # <<>>

\* a failed Summarizer call answered with a placeholder text
CreateIncrementalSummary_FailureText(h, out) ==
    IF MessagesToSummarize(h) = <<>> THEN ""
    ELSE IF out.ok THEN Strip(out.text) ELSE "s"

CreateIncrementalSummary(h, out) ==
    IF MessagesToSummarize(h) = <<>> THEN ""
    ELSE IF out.ok THEN Strip(out.text) ELSE ""

\* the commit made with the message count as the turn
ContextUpdateSummary_MessageCount(h, out) ==
    IF ~ShouldCreateSummary(h) THEN h
    ELSE LET s == CreateIncrementalSummary(h, out)
         IN IF s = "" THEN h ELSE HistoryUpdateSummary(h, s, Len(h.messages))

\* the commit made whatever text came back
ContextUpdateSummary_NoEmptyTest(h, out) ==
    IF ~ShouldCreateSummary(h) THEN h
    ELSE HistoryUpdateSummary(h, CreateIncrementalSummary(h, out), GetTurns(h))

\* the commit made without the re-check of should_create_summary
ContextUpdateSummary_NoRecheck(h, out) ==
    LET s == CreateIncrementalSummary(h, out)
    IN IF s = "" THEN h ELSE HistoryUpdateSummary(h, s, GetTurns(h))

ContextUpdateSummary(h, out) ==
    IF ~ShouldCreateSummary(h) THEN h
    ELSE LET s == CreateIncrementalSummary(h, out)
         IN IF s = "" THEN h ELSE HistoryUpdateSummary(h, s, GetTurns(h))

\* ContextConfig.max_turns
ContextConfigMaxTurns == 30

\* build_context: the summary it renders (or "") and the messages it renders;
\* mt = 0 stands for max_turns=None
BuildContext(h, mt) ==
    LET max_turns == IF mt = 0 THEN ContextConfigMaxTurns ELSE mt
    IN IF HasSummary(h)
       THEN [summary |-> h.summary, msgs |-> GetMessagesSinceSummary(h)]
       ELSE [summary |-> "", msgs |-> GetRecentMessages(h, max_turns)]

\* check_summary honoured: the summary updated before the context is built
GetContextWithSummary_Checks(h, mt, check_summary, out) ==
    LET h2 == IF check_summary THEN ContextUpdateSummary(h, out) ELSE h
    IN [h |-> h2,
        invoked |-> check_summary /\ ShouldCreateSummary(h) /\ InvokesSummarizer(h),
        context |-> BuildContext(h2, mt)]

\* get_context_with_summary: the history it leaves, whether it invoked the
\* Summarizer (whose outcome would be out), and the context it returns
GetContextWithSummary(h, mt, check_summary, out) ==
    [h |-> h, invoked |-> FALSE, context |-> BuildContext(h, mt)]

\* ----------------------------------------------------- ConversationManager
\* The conversation as the manager holds it: the cached history, the
\* persisted record, and the verification's history variables.
Conv == [h |-> Hist, stored |-> stored, entry |-> indexEntry,
         appended |-> appended, log |-> log, covered |-> covered]

\* the entry _update_index writes for the history
IndexEntry(h) == [exists |-> TRUE, total_turns |-> GetTurns(h)]

\* a chat call that returns without the final save
ManagerSaveConversation_Skipped(c) == c

\* storage.save_conversation writes history.to_dict() and the index entry
ManagerSaveConversation(c) ==
    [c EXCEPT !.stored = ToDict(c.h), !.entry = IndexEntry(c.h)]

\* add_message testing the save interval on the turn count before the append
ManagerAddMessage_TurnsBeforeAppend(c, role) ==
    LET m  == [role |-> role, id |-> c.appended + 1]
        h2 == HistoryAddMessage(c.h, m)
        c2 == [c EXCEPT !.h = h2, !.appended = c.appended + 1,
                        !.log = Append(c.log, m),
                        !.covered = IF h2.summary = "" THEN {} ELSE c.covered]
    IN IF autoSave /\ GetTurns(c.h) % saveInterval = 0
       THEN ManagerSaveConversation(c2) ELSE c2

\* ConversationManager.add_message, with its auto-save
ManagerAddMessage(c, role) ==
    LET m  == [role |-> role, id |-> c.appended + 1]
        h2 == HistoryAddMessage(c.h, m)
        c2 == [c EXCEPT !.h = h2, !.appended = c.appended + 1,
                        !.log = Append(c.log, m),
                        !.covered = IF h2.summary = "" THEN {} ELSE c.covered]
    IN IF autoSave /\ GetTurns(h2) % saveInterval = 0
       THEN ManagerSaveConversation(c2) ELSE c2

\* ContextManager.update_summary on the cached history; covered records the
\* ids of the messages the committed summary was built from: the prior
\* summary's, when there is one, plus those handed to the Summarizer
ContextUpdate(c, out) ==
    LET h2 == ContextUpdateSummary(c.h, out)
        given == MessagesToSummarize(c.h)
    IN IF h2 = c.h THEN c
       ELSE [c EXCEPT !.h = h2,
                      !.covered = (IF HasSummary(c.h) THEN c.covered ELSE {})
                                  \cup {given[i].id : i \in 1..Len(given)}]

\* the conversation after an operation
SetConv(c) ==
    /\ messages' = c.h.messages
    /\ summary' = c.h.summary
    /\ summaryTurn' = c.h.summary_turn
    /\ stored' = c.stored
    /\ indexEntry' = c.entry
    /\ appended' = c.appended
    /\ log' = c.log
    /\ covered' = c.covered
    /\ UNCHANGED <<maxTurns, compressionMethod, summaryInterval, autoSave, saveInterval>>
    /\ UNCHANGED <<vecVars, mgrVars>>

AddMessage(role) ==
    /\ appended < MaxAppends
    /\ SetConv(ManagerAddMessage(Conv, role))
    /\ lastOp' = [op |-> "add_message", role |-> role,
                  trimmed |-> Len(messages) + 1 > 2 * maxTurns,
                  hadSummary |-> summary # ""]
    /\ UNCHANGED <<chat, calls>>

UpdateSummary(out) ==
    /\ SetConv(ContextUpdate(Conv, out))
    /\ lastOp' = [op |-> "update_summary",
                  ret |-> ContextUpdateSummary(Hist, out) # Hist,
                  hadSummary |-> summary # ""]
    /\ UNCHANGED <<chat, calls>>

\* no chat call made yet; commitAt is the number of the chat call that made
\* the latest summary commit (0: none)
NoChats == [n |-> 0, allOk |-> TRUE, sumNonEmpty |-> TRUE, sumNonBlank |-> TRUE,
            commitAt |-> 0]

\* ConversationAssistant.chat: the user message is added, query_with_context
\* returns an answer or raises, the answer is added, the summary is updated
\* when due, and the conversation is saved
Chat(answered, out) ==
    /\ chat.n < MaxChats
    /\ UNCHANGED calls
    /\ LET c0 == ManagerAddMessage(Conv, "user")
           ctx == GetContextWithSummary(c0.h, maxTurns, FALSE, out)
           c1 == [c0 EXCEPT !.h = ctx.h]
           c2 == ManagerAddMessage(c1, "assistant")
           should == ShouldCreateSummary(c2.h)
           invoked == should /\ InvokesSummarizer(c2.h)
           c3 == IF should THEN ContextUpdate(c2, out) ELSE c2
       IN IF ~answered
          THEN /\ SetConv(c1)
               /\ chat' = [chat EXCEPT !.n = @ + 1, !.allOk = FALSE]
               /\ lastOp' = [op |-> "chat", answered |-> FALSE, should |-> FALSE,
                             invoked |-> FALSE, early |-> ctx.invoked, failed |-> FALSE]
          ELSE /\ SetConv(ManagerSaveConversation(c3))
               /\ chat' = [chat EXCEPT
                             !.n = @ + 1,
                             !.sumNonEmpty = @ /\ (invoked => out.ok /\ out.text # ""),
                             !.sumNonBlank = @ /\ (invoked => out.ok /\ Strip(out.text) # ""),
                             !.commitAt = IF c3.h # c2.h THEN chat.n + 1 ELSE @]
               /\ lastOp' = [op |-> "chat", answered |-> TRUE, should |-> should,
                             invoked |-> invoked, early |-> ctx.invoked,
                             failed |-> invoked /\ ~out.ok]

\* ------------------------------------------- ConversationAssistant.stream_chat
\* the consumers that hold a stream_chat generator of the conversation
Callers == {1, 2}

\* what the answer stream does when it is pulled
StreamOutcomes == {"chunk", "exhausted", "raise"}

\* what one stream_chat call has done to the conversation so far
NothingDone == [assistant |-> FALSE, summarized |-> FALSE, saved |-> FALSE]

\* no generator is running
NoCalls == [pc |-> [k \in Callers |-> "idle"], chunks |-> [k \in Callers |-> 0],
            did |-> [k \in Callers |-> NothingDone],
            n |-> 0, clean |-> TRUE, overlapped |-> FALSE]

\* the other generator is suspended at its yield
OtherInProgress(k) == \E j \in Callers \ {k} : calls.pc[j] = "yielded"

\* stream_chat that does not add the user message before it streams
StreamBegin_NoUserMessage(c) == c

\* stream_chat up to the answer stream: the user message is added (and
\* auto-saved), the context is built
StreamBegin(c) ==
    LET c0 == ManagerAddMessage(c, "user")
        ctx == GetContextWithSummary(c0.h, maxTurns, FALSE, [ok |-> FALSE, text |-> ""])
    IN [c0 EXCEPT !.h = ctx.h]

\* stream_chat after the answer stream is exhausted: the answer is added, the
\* summary is updated when due, the conversation is saved
StreamEnd(c, out) ==
    LET c2 == ManagerAddMessage(c, "assistant")
        c3 == IF ShouldCreateSummary(c2.h) THEN ContextUpdate(c2, out) ELSE c2
    IN ManagerSaveConversation(c3)

\* the first next() on the generator: the body runs to the first yield, to
\* its end when the answer stream is empty, or to the exception of
\* stream_query_with_context or of the stream
StreamStart(k, first, out) ==
    /\ calls.pc[k] = "idle"
    /\ calls.n < MaxStreamCalls
    /\ LET c1 == StreamBegin(Conv)
           wrote == c1.stored # stored
           c2 == IF first = "exhausted" THEN StreamEnd(c1, out) ELSE c1
       IN /\ SetConv(c2)
          /\ calls' = [calls EXCEPT
                 !.pc[k] = IF first = "chunk" THEN "yielded" ELSE "idle",
                 !.chunks[k] = IF first = "chunk" THEN 1 ELSE 0,
                 !.did[k] = IF first = "exhausted"
                            THEN [assistant |-> TRUE,
                                  summarized |-> ShouldCreateSummary(
                                      ManagerAddMessage(c1, "assistant").h),
                                  saved |-> TRUE]
                            ELSE [NothingDone EXCEPT !.saved = wrote],
                 !.n = @ + 1,
                 !.clean = @ /\ first # "raise",
                 !.overlapped = @ \/ OtherInProgress(k)]
    /\ lastOp' = [op |-> "stream_start", outcome |-> first]
    /\ UNCHANGED chat

\* a later next(): one more chunk is yielded, the stream raises, or the
\* stream is exhausted and the body runs to its end
StreamNext(k, next, out) ==
    /\ calls.pc[k] = "yielded"
    /\ next = "chunk" => calls.chunks[k] < MaxChunks
    /\ IF next = "exhausted"
       THEN /\ SetConv(StreamEnd(Conv, out))
            /\ calls' = [calls EXCEPT
                   !.pc[k] = "idle", !.chunks[k] = 0,
                   !.did[k] = [assistant |-> TRUE,
                               summarized |-> ShouldCreateSummary(
                                   ManagerAddMessage(Conv, "assistant").h),
                               saved |-> TRUE]]
       ELSE /\ SetConv(Conv)
            /\ calls' = [calls EXCEPT
                   !.pc[k] = IF next = "chunk" THEN "yielded" ELSE "idle",
                   !.chunks[k] = IF next = "chunk" THEN @ + 1 ELSE 0,
                   !.clean = @ /\ next # "raise"]
    /\ lastOp' = [op |-> "stream_next", outcome |-> next]
    /\ UNCHANGED chat

\* the consumer stops pulling: the generator is closed at its yield and the
\* rest of the body never runs
StreamAbandon(k) ==
    /\ calls.pc[k] = "yielded"
    /\ SetConv(Conv)
    /\ calls' = [calls EXCEPT !.pc[k] = "idle", !.chunks[k] = 0, !.clean = FALSE]
    /\ lastOp' = [op |-> "stream_abandon", caller |-> k]
    /\ UNCHANGED chat

\* ------------------------------- ConversationManager over several ids
Ids == {"a", "b"}
MgrRoles == {"user"}

\* Python's None
None == [none |-> TRUE]

\* dict operations: d[k] = v, del d[k]
DictPut(f, k, v) == [x \in DOMAIN f \cup {k} |-> IF x = k THEN v ELSE f[x]]
DictDel(f, k) == [x \in DOMAIN f \ {k} |-> f[x]]
EmptyDict == [x \in {} |-> None]

\* the manager's cache and the storage directory
Mgr == [conversations |-> conversations, records |-> records, index |-> index,
        total_conversations |-> totalConversations]

\* ConversationHistory(conversation_id=id, max_turns=config.max_turns); oid
\* tells a history object from the object it replaces under the same id
NewHistory(id, oid) ==
    [conversation_id |-> id, oid |-> oid, messages |-> <<>>, summary |-> "",
     summary_turn |-> 0, max_turns |-> maxTurns]

NewOid(m, id) ==
    IF id \in DOMAIN m.conversations THEN 1 - m.conversations[id].oid ELSE 0

\* the dict {}
EmptyMetadata == [keys |-> {}]

\* ConversationMessage.to_dict: metadata or {}
MessageToDict(msg) ==
    [role |-> msg.role,
     metadata |-> IF msg.metadata = None THEN EmptyMetadata ELSE msg.metadata]

\* ConversationMessage.from_dict
MessageFromDict(data) == [role |-> data.role, metadata |-> data.metadata]

\* ConversationHistory.to_dict as written to history.json
HistoryToDict(h) ==
    [conversation_id |-> h.conversation_id,
     messages |-> [i \in 1..Len(h.messages) |-> MessageToDict(h.messages[i])],
     total_turns |-> GetTurns(h), max_turns |-> h.max_turns,
     summary |-> h.summary, summary_turn |-> h.summary_turn]

\* from_dict leaving the summary at its defaults
FromDict_NoSummary(data, oid) ==
    [conversation_id |-> data.conversation_id, oid |-> oid,
     messages |-> [i \in 1..Len(data.messages) |-> MessageFromDict(data.messages[i])],
     summary |-> "",
     summary_turn |-> 0, max_turns |-> data.max_turns]

\* ConversationHistory.from_dict: a new history object
FromDict(data, oid) ==
    [conversation_id |-> data.conversation_id, oid |-> oid,
     messages |-> [i \in 1..Len(data.messages) |-> MessageFromDict(data.messages[i])],
     summary |-> data.summary,
     summary_turn |-> data.summary_turn, max_turns |-> data.max_turns]

\* _update_index appending an entry whether or not the id has one
UpdateIndex_AlwaysAppends(idx, id, h) ==
    Append(idx, [conversation_id |-> id, total_turns |-> GetTurns(h)])

\* ConversationStorage._update_index: the "conversations" list it writes
UpdateIndex(idx, id, h) ==
    LET conv_info == [conversation_id |-> id, total_turns |-> GetTurns(h)]
        existing == {i \in 1..Len(idx) : idx[i].conversation_id = id}
    IN IF existing # {}
       THEN LET existing_index == CHOOSE i \in existing : \A j \in existing : i <= j
            IN [idx EXCEPT ![existing_index] = conv_info]
       ELSE Append(idx, conv_info)

\* save_conversation writing history.json and leaving index.json as it was
StorageSaveConversation_SkipsIndex(m, id, h) ==
    [m EXCEPT !.records = DictPut(@, id, HistoryToDict(h))]

\* ConversationStorage.save_conversation
StorageSaveConversation(m, id, h) ==
    [m EXCEPT !.records = DictPut(@, id, HistoryToDict(h)),
              !.index = UpdateIndex(@, id, h),
              !.total_conversations = Len(UpdateIndex(m.index, id, h))]

\* ConversationStorage.load_conversation
StorageLoadConversation(m, id, oid) ==
    IF id \notin DOMAIN m.records THEN None ELSE FromDict(m.records[id], oid)

\* ConversationStorage.list_conversations
ListConversations(m) == m.index

\* ConversationStorage.delete_conversation with the index left as it was
StorageDeleteConversation_KeepsIndex(m, id) ==
    [m |-> [m EXCEPT !.records = DictDel(@, id)], ret |-> TRUE]

\* ConversationStorage.delete_conversation
StorageDeleteConversation(m, id) ==
    LET kept == SelectSeq(m.index, LAMBDA c : c.conversation_id # id)
    IN [m |-> [m EXCEPT !.records = DictDel(@, id),
                        !.index = kept,
                        !.total_conversations = Len(kept)],
        ret |-> TRUE]

\* ConversationManager.load_conversation; read tells whether the store was read
MgrLoadConversation(m, id) ==
    IF id \in DOMAIN m.conversations
    THEN [m |-> m, ret |-> m.conversations[id], read |-> FALSE]
    ELSE LET history == StorageLoadConversation(m, id, NewOid(m, id))
         IN IF history # None
            THEN [m |-> [m EXCEPT !.conversations = DictPut(@, id, history)],
                  ret |-> history, read |-> TRUE]
            ELSE [m |-> m, ret |-> None, read |-> TRUE]

\* a miss answered with a newly created conversation
MgrGetConversation_CreatesOnMiss(m, id) ==
    IF id \notin DOMAIN m.conversations
    THEN LET l == MgrLoadConversation(m, id)
         IN IF l.ret # None THEN l
            ELSE [m |-> [m EXCEPT !.conversations = DictPut(@, id, NewHistory(id, 0))],
                  ret |-> NewHistory(id, 0), read |-> TRUE]
    ELSE [m |-> m, ret |-> m.conversations[id], read |-> FALSE]

\* ConversationManager.get_conversation
MgrGetConversation(m, id) ==
    IF id \notin DOMAIN m.conversations
    THEN MgrLoadConversation(m, id)
    ELSE [m |-> m, ret |-> m.conversations[id], read |-> FALSE]

\* ConversationManager.create_conversation(conversation_id=id)
MgrCreateConversation(m, id) ==
    LET history == NewHistory(id, NewOid(m, id))
        m1 == [m EXCEPT !.conversations = DictPut(@, id, history)]
    IN IF autoSave THEN StorageSaveConversation(m1, id, history) ELSE m1

\* ConversationManager.save_conversation
MgrSaveConversation(m, id) ==
    LET g == MgrGetConversation(m, id)
    IN IF g.ret = None THEN g.m ELSE StorageSaveConversation(g.m, id, g.ret)

\* ConversationManager.add_message: the manager it leaves and whether it raised
MgrAddMessage(m, id, role) ==
    LET g == MgrGetConversation(m, id)
    IN IF g.ret = None THEN [m |-> g.m, raised |-> TRUE]
       ELSE LET history == HistoryAddMessage(g.ret, [role |-> role, metadata |-> None])
                m1 == [g.m EXCEPT !.conversations = DictPut(@, id, history)]
            IN [m |-> IF autoSave /\ GetTurns(history) % saveInterval = 0
                      THEN MgrSaveConversation(m1, id) ELSE m1,
                raised |-> FALSE]

\* ContextManager.update_summary on the history get_conversation returns: the
\* cached object is updated in place
MgrUpdateSummary(m, id, out) ==
    LET g == MgrGetConversation(m, id)
    IN IF g.ret = None THEN g.m
       ELSE [g.m EXCEPT !.conversations = DictPut(@, id, ContextUpdateSummary(g.ret, out))]

\* ConversationManager.delete_conversation
MgrDeleteConversation(m, id) ==
    StorageDeleteConversation([m EXCEPT !.conversations = DictDel(@, id)], id)

\* the manager after an operation
SetMgr(m) ==
    /\ conversations' = m.conversations
    /\ records' = m.records
    /\ index' = m.index
    /\ totalConversations' = m.total_conversations
    /\ UNCHANGED <<histVars, vecVars>>

CreateConversation(id) ==
    /\ SetMgr(MgrCreateConversation(Mgr, id))
    /\ lastOp' = [op |-> "create_conversation"]

LoadConversation(id) ==
    /\ SetMgr(MgrLoadConversation(Mgr, id).m)
    /\ lastOp' = [op |-> "load_conversation"]

GetConversation(id) ==
    /\ SetMgr(MgrGetConversation(Mgr, id).m)
    /\ lastOp' = [op |-> "get_conversation", read |-> MgrGetConversation(Mgr, id).read]

MgrAddMessageCall(id, role) ==
    /\ SetMgr(MgrAddMessage(Mgr, id, role).m)
    /\ lastOp' = [op |-> "add_message",
                  raised |-> MgrAddMessage(Mgr, id, role).raised]

SaveConversation(id) ==
    /\ SetMgr(MgrSaveConversation(Mgr, id))
    /\ lastOp' = [op |-> "save_conversation"]

\* list_conversations, and search_conversations which filters its result,
\* read the index
ReadIndex ==
    /\ SetMgr(Mgr)
    /\ lastOp' = [op |-> "list_conversations"]

DeleteConversation(id) ==
    /\ SetMgr(MgrDeleteConversation(Mgr, id).m)
    /\ lastOp' = [op |-> "delete_conversation", id |-> id,
                  ret |-> MgrDeleteConversation(Mgr, id).ret]

UpdateSummaryOf(id, out) ==
    /\ SetMgr(MgrUpdateSummary(Mgr, id, out))
    /\ lastOp' = [op |-> "update_summary"]

\* the process ends and a new ConversationManager is built on the directory
Restart ==
    /\ conversations' = EmptyDict
    /\ UNCHANGED <<records, index, totalConversations, histVars, vecVars>>
    /\ lastOp' = [op |-> "restart"]

\* ------------------------------------------------------- SimpleVectorStore
Texts == {"AI", "Banana"}
Queries == {"artificial intelligence"}
HashValues == {0, 1}
DistanceMetrics == {"cosine", "euclidean", "dotproduct"}

\* a metadata id that is not of the form add_documents gives its ids
ExtId == [kind |-> "ext", idx |-> 0, hash |-> 0]

\* Document.metadata of the documents added: a dict, here with the key
\* "source" and, for one, the key "id"
UserMeta == [source |-> "user"]
KbMeta == [source |-> "kb", id |-> ExtId]

\* search filters: no filter (None or {}), or a dict of key/value pairs
Filters == {<<>>, [source |-> "user"], [id |-> ExtId]}

\* the documents a caller adds
InputDocuments ==
    {[page_content |-> "AI", metadata |-> UserMeta],
     [page_content |-> "Banana", metadata |-> UserMeta],
     [page_content |-> "AI", metadata |-> KbMeta]}

\* the EmbeddingPort (embed_documents, embed_query): a function of the text
Embed(text) ==
    CASE text = "AI" -> <<1, 0>>
      [] text = "Banana" -> <<0, 3>>
      [] text = "artificial intelligence" -> <<2, 1>>
      [] OTHER -> <<0, 0>>

\* f"doc_{i}_{hash(text) % 1000000}"
DocId(i, text) == [kind |-> "doc", idx |-> i, hash |-> hashOf[text]]

\* ids a caller can pass to delete
CandidateIds ==
    {[kind |-> "doc", idx |-> i, hash |-> hv] : i \in 0..(MaxDocs - 1), hv \in HashValues}
      \cup {ExtId}

\* a filter whose value for a key no document carries is None
NoneFilter == [tag |-> None]

\* a missing key told from every value, None included

\* m.get(key) == value: a missing key reads as None
MetaGetIs(m, key, value) == IF key \in DOMAIN m THEN m[key] = value ELSE value = None

\* {**m, "similarity_score": score}
WithScore(m, score) ==
    [key \in DOMAIN m \cup {"similarity_score"} |->
        IF key = "similarity_score" THEN score ELSE m[key]]

Dot(a, b) == a[1] * b[1] + a[2] * b[2]
Sub(a, b) == <<a[1] - b[1], a[2] - b[2]>>

\* _compute_similarity.  The float score is represented by a rational n/d
\* (d > 0) that is a strictly increasing image of it, so that it orders and
\* ties the chunks of one search as the score does:
\*   cosine      dot/(|a||b|)  as  sign(dot) * dot^2 / (|a|^2 |b|^2), 0 when a norm is 0
\*   euclidean   1/(1+|a-b|)   as  -|a-b|^2
\*   dotproduct  dot           as  dot
ComputeSimilarity(vec1, vec2) ==
    CASE distanceMetric = "cosine" ->
           IF Dot(vec1, vec1) = 0 \/ Dot(vec2, vec2) = 0
           THEN [n |-> 0, d |-> 1]
           ELSE [n |-> (IF Dot(vec1, vec2) < 0 THEN -1 ELSE 1) * Dot(vec1, vec2) * Dot(vec1, vec2),
                 d |-> Dot(vec1, vec1) * Dot(vec2, vec2)]
      [] distanceMetric = "euclidean" ->
           [n |-> 0 - Dot(Sub(vec1, vec2), Sub(vec1, vec2)), d |-> 1]
      [] OTHER -> [n |-> Dot(vec1, vec2), d |-> 1]

ScoreLess(x, y) == x.n * y.d < y.n * x.d

\* the filter test of search: every key of the filter has the filter's value
PassesFilter(m, filter) == \A key \in DOMAIN filter : MetaGetIs(m, key, filter[key])

\* the (index, similarity) pairs of the chunks passing the filter, in index order
RECURSIVE Similarities(_, _, _)
Similarities(qv, filter, n) ==
    IF n = 0 THEN <<>>
    ELSE LET rest == Similarities(qv, filter, n - 1)
         IN IF DOMAIN filter # {} /\ ~PassesFilter(metadataList[n], filter)
            THEN rest
            ELSE Append(rest, [idx |-> n, score |-> ComputeSimilarity(qv, vectors[n])])

\* an insertion that puts x in front of the entries of equal score
InsertByScore_BeforeEqual(sorted, x) ==
    LET p == Cardinality({j \in 1..Len(sorted) : ScoreLess(x.score, sorted[j].score)})
    IN SubSeq(sorted, 1, p) \o <<x>> \o SubSeq(sorted, p + 1, Len(sorted))

\* x put behind every entry of a descending list whose score is not less
InsertByScore(sorted, x) ==
    LET p == Cardinality({j \in 1..Len(sorted) : ~ScoreLess(sorted[j].score, x.score)})
    IN SubSeq(sorted, 1, p) \o <<x>> \o SubSeq(sorted, p + 1, Len(sorted))

\* list.sort(key=score, reverse=True): descending, stable
RECURSIVE SortByScore(_)
SortByScore(sims) ==
    IF sims = <<>> THEN <<>>
    ELSE InsertByScore(SortByScore(SubSeq(sims, 1, Len(sims) - 1)), sims[Len(sims)])

\* the elements of s at the positions outside R, in order
RECURSIVE RemoveIndices(_, _)
RemoveIndices(s, R) ==
    IF s = <<>> THEN <<>>
    ELSE LET front == RemoveIndices(SubSeq(s, 1, Len(s) - 1), R)
         IN IF Len(s) \in R THEN front ELSE Append(front, s[Len(s)])

\* a persisted artifact: missing, or holding an array
NoFile == [exists |-> FALSE, data |-> <<>>]
Written(data) == [exists |-> TRUE, data |-> data]

\* _save_data: the vectors are written only when there are any
SaveData(vs, ms, ds) ==
    /\ vectorsFile' = IF vs # <<>> THEN Written(vs) ELSE vectorsFile
    /\ metadataFile' = Written(ms)
    /\ documentsFile' = Written(ds)

\* _load_data: what a store constructed on the persisted artifacts holds
LoadData(vf, mf, df) ==
    IF vf.exists /\ mf.exists /\ df.exists
    THEN [vectors |-> vf.data, metadata_list |-> mf.data, documents |-> df.data]
    ELSE [vectors |-> <<>>, metadata_list |-> <<>>, documents |-> <<>>]

Index == [vectors |-> vectors, metadata_list |-> metadataList, documents |-> documents]

UnchangedConversation == UNCHANGED <<histVars, mgrVars>>

\* the chunks stored before the embedding call is made
AddDocuments_StoresBeforeEmbedding(batch, embedded) ==
    /\ Len(documents) + Len(batch) <= MaxDocs
    /\ UnchangedConversation
    /\ UNCHANGED <<distanceMetric, hashOf>>
    /\ IF batch = <<>>
       THEN /\ lastOp' = [op |-> "add_documents", raised |-> FALSE]
            /\ UNCHANGED <<vectors, metadataList, documents, assigned,
                           vectorsFile, metadataFile, documentsFile>>
       ELSE LET start_idx == Len(documents)
                ids == [i \in 1..Len(batch) |->
                          DocId(start_idx + i - 1, batch[i].page_content)]
            IN /\ metadataList' = metadataList \o [i \in 1..Len(batch) |-> batch[i].metadata]
               /\ documents' = documents \o batch
               /\ assigned' = assigned \o ids
               /\ IF embedded
                  THEN /\ vectors' = vectors \o [i \in 1..Len(batch) |->
                                                    Embed(batch[i].page_content)]
                       /\ SaveData(vectors', metadataList', documents')
                  ELSE UNCHANGED <<vectors, vectorsFile, metadataFile, documentsFile>>
               /\ lastOp' = [op |-> "add_documents", raised |-> ~embedded]

\* add_documents with the embedding call succeeding or raising
AddDocuments(batch, embedded) ==
    /\ Len(documents) + Len(batch) <= MaxDocs
    /\ UnchangedConversation
    /\ UNCHANGED <<distanceMetric, hashOf>>
    /\ IF batch = <<>>
       THEN /\ lastOp' = [op |-> "add_documents", raised |-> FALSE]
            /\ UNCHANGED <<vectors, metadataList, documents, assigned,
                           vectorsFile, metadataFile, documentsFile>>
       ELSE IF ~embedded
       THEN /\ lastOp' = [op |-> "add_documents", raised |-> TRUE]
            /\ UNCHANGED <<vectors, metadataList, documents, assigned,
                           vectorsFile, metadataFile, documentsFile>>
       ELSE LET start_idx == Len(documents)
                ids == [i \in 1..Len(batch) |->
                          DocId(start_idx + i - 1, batch[i].page_content)]
            IN /\ vectors' = vectors \o [i \in 1..Len(batch) |-> Embed(batch[i].page_content)]
               /\ metadataList' = metadataList \o [i \in 1..Len(batch) |-> batch[i].metadata]
               /\ documents' = documents \o batch
               /\ assigned' = assigned \o ids
               /\ SaveData(vectors', metadataList', documents')
               /\ lastOp' = [op |-> "add_documents", raised |-> FALSE]

\* search: the (index, score) pairs of the chunks it returns, best first
SearchHits(query, top_k, filter) ==
    IF documents = <<>> THEN <<>>
    ELSE PyTo(SortByScore(Similarities(Embed(query), filter, Len(vectors))), top_k)

\* search: each returned chunk is the stored document, whose metadata is
\* replaced by a copy that carries the score
Search(query, top_k, filter) ==
    LET hits == SearchHits(query, top_k, filter)
        scoreOf(i) == hits[CHOOSE j \in 1..Len(hits) : hits[j].idx = i].score
    IN /\ documents' = [i \in 1..Len(documents) |->
                          IF \E j \in 1..Len(hits) : hits[j].idx = i
                          THEN [documents[i] EXCEPT !.metadata = WithScore(@, scoreOf(i))]
                          ELSE documents[i]]
       /\ lastOp' = [op |-> "search"]
       /\ UnchangedConversation
       /\ UNCHANGED <<vectors, metadataList, distanceMetric, hashOf, assigned,
                      vectorsFile, metadataFile, documentsFile>>

\* delete without the early return for an empty id list
Delete_SavesAlways(document_ids) ==
    /\ UnchangedConversation
    /\ UNCHANGED <<distanceMetric, hashOf>>
    /\ LET indices_to_remove ==
              {i \in 1..Len(documents) :
                  \/ DocId(i - 1, documents[i].page_content) \in document_ids
                  \/ (i <= Len(metadataList)
                      /\ \E id \in document_ids :
                            MetaGetIs(metadataList[i], "id", id))}
       IN /\ vectors' = RemoveIndices(vectors, indices_to_remove)
          /\ metadataList' = RemoveIndices(metadataList, indices_to_remove)
          /\ documents' = RemoveIndices(documents, indices_to_remove)
          /\ assigned' = RemoveIndices(assigned, indices_to_remove)
          /\ SaveData(vectors', metadataList', documents')
          /\ lastOp' = [op |-> "delete", ret |-> TRUE, empty |-> document_ids = {}]

\* delete
Delete(document_ids) ==
    /\ UnchangedConversation
    /\ UNCHANGED <<distanceMetric, hashOf>>
    /\ IF document_ids = {}
       THEN /\ lastOp' = [op |-> "delete", ret |-> TRUE, empty |-> TRUE]
            /\ UNCHANGED <<vectors, metadataList, documents, assigned,
                           vectorsFile, metadataFile, documentsFile>>
       ELSE LET indices_to_remove ==
                  {i \in 1..Len(documents) :
                      \/ DocId(i - 1, documents[i].page_content) \in document_ids
                      \/ (i <= Len(metadataList)
                          /\ \E id \in document_ids :
                                MetaGetIs(metadataList[i], "id", id))}
            IN /\ vectors' = RemoveIndices(vectors, indices_to_remove)
               /\ metadataList' = RemoveIndices(metadataList, indices_to_remove)
               /\ documents' = RemoveIndices(documents, indices_to_remove)
               /\ assigned' = RemoveIndices(assigned, indices_to_remove)
               /\ SaveData(vectors', metadataList', documents')
               /\ lastOp' = [op |-> "delete", ret |-> TRUE, empty |-> FALSE]

\* _save_data stopped after it has written the first `written` of its three
\* artifacts, by an exception of the write or by the end of the process
SaveDataPartly(vs, ms, ds, written) ==
    /\ vectorsFile' = IF written >= 1 /\ vs # <<>> THEN Written(vs) ELSE vectorsFile
    /\ metadataFile' = IF written >= 2 THEN Written(ms) ELSE metadataFile
    /\ documentsFile' = documentsFile

\* add_documents whose _save_data fails part-way: the arrays hold the new
\* chunks and the exception is raised again
AddDocumentsInterrupted(batch, written) ==
    /\ batch # <<>>
    /\ Len(documents) + Len(batch) <= MaxDocs
    /\ UnchangedConversation
    /\ UNCHANGED <<distanceMetric, hashOf>>
    /\ LET start_idx == Len(documents)
           ids == [i \in 1..Len(batch) |->
                     DocId(start_idx + i - 1, batch[i].page_content)]
       IN /\ vectors' = vectors \o [i \in 1..Len(batch) |-> Embed(batch[i].page_content)]
          /\ metadataList' = metadataList \o [i \in 1..Len(batch) |-> batch[i].metadata]
          /\ documents' = documents \o batch
          /\ assigned' = assigned \o ids
          /\ SaveDataPartly(vectors', metadataList', documents', written)
          /\ lastOp' = [op |-> "add_documents_interrupted", raised |-> TRUE]

\* delete whose _save_data fails part-way: the chunks are removed from the
\* arrays, the exception is caught and False is returned
DeleteInterrupted(document_ids, written) ==
    /\ document_ids # {}
    /\ UnchangedConversation
    /\ UNCHANGED <<distanceMetric, hashOf>>
    /\ LET indices_to_remove ==
              {i \in 1..Len(documents) :
                  \/ DocId(i - 1, documents[i].page_content) \in document_ids
                  \/ (i <= Len(metadataList)
                      /\ \E id \in document_ids :
                            MetaGetIs(metadataList[i], "id", id))}
       IN /\ vectors' = RemoveIndices(vectors, indices_to_remove)
          /\ metadataList' = RemoveIndices(metadataList, indices_to_remove)
          /\ documents' = RemoveIndices(documents, indices_to_remove)
          /\ assigned' = RemoveIndices(assigned, indices_to_remove)
          /\ SaveDataPartly(vectors', metadataList', documents', written)
          /\ lastOp' = [op |-> "delete_interrupted", ret |-> FALSE]

\* the process ends and a new SimpleVectorStore is constructed on the
\* directory; the new process has returned no id yet
Reopen ==
    /\ vectors' = LoadData(vectorsFile, metadataFile, documentsFile).vectors
    /\ metadataList' = LoadData(vectorsFile, metadataFile, documentsFile).metadata_list
    /\ documents' = LoadData(vectorsFile, metadataFile, documentsFile).documents
    /\ assigned' = <<>>
    /\ lastOp' = [op |-> "reopen"]
    /\ UnchangedConversation
    /\ UNCHANGED <<distanceMetric, hashOf, vectorsFile, metadataFile, documentsFile>>

\* SimpleVectorStore.__init__ on an empty directory
InitStore ==
    /\ vectors = <<>>
    /\ metadataList = <<>>
    /\ documents = <<>>
    /\ assigned = <<>>
    /\ vectorsFile = NoFile
    /\ metadataFile = NoFile
    /\ documentsFile = NoFile

\* hash() gives the texts different values, or the same value (a collision)
HashSeeds == {[t \in Texts |-> IF t = "AI" THEN 0 ELSE 1], [t \in Texts |-> 0]}

Batches == UNION {[1..n -> InputDocuments] : n \in 0..MaxBatch}

DeleteIdSets == {ids \in SUBSET CandidateIds : Cardinality(ids) <= 2}

\* the state after ConversationManager.create_conversation
InitConversation(mts, ivs) ==
    /\ messages = <<>>
    /\ summary = ""
    /\ summaryTurn = 0
    /\ maxTurns \in mts
    /\ compressionMethod \in CompressionMethods
    /\ summaryInterval \in ivs
    /\ autoSave \in BOOLEAN
    /\ saveInterval \in 1..MaxSaveInterval
    /\ stored = IF autoSave
                THEN ToDict([messages |-> <<>>, summary |-> "",
                             summary_turn |-> 0, max_turns |-> maxTurns])
                ELSE Absent
    /\ indexEntry = IF autoSave THEN [exists |-> TRUE, total_turns |-> 0] ELSE Absent
    /\ appended = 0
    /\ log = <<>>
    /\ covered = {}
    /\ chat = NoChats
    /\ calls = NoCalls
    /\ lastOp = [op |-> "create_conversation"]

\* no second conversation takes part in SpecHist, SpecChat and SpecVec
IdleManager ==
    /\ conversations = EmptyDict /\ records = EmptyDict
    /\ index = <<>> /\ totalConversations = 0

\* no vector store takes part in SpecHist and SpecChat
IdleStore ==
    /\ InitStore
    /\ distanceMetric = "cosine"
    /\ hashOf = [t \in Texts |-> 0]

InitHist == InitConversation(1..MaxMaxTurns, 1..MaxInterval) /\ IdleStore /\ IdleManager

NextHist ==
    \/ \E role \in Roles : AddMessage(role)
    \/ \E out \in SummarizerOutcomes : UpdateSummary(out)

SpecHist == InitHist /\ [][NextHist]_vars

InitChat == InitConversation(1..MaxChatTurns, 1..MaxChatInterval) /\ IdleStore /\ IdleManager

NextChat ==
    \/ \E out \in SummarizerOutcomes : Chat(TRUE, out)
    \/ Chat(FALSE, [ok |-> FALSE, text |-> ""])

SpecChat == InitChat /\ [][NextChat]_vars

\* one conversation driven through two stream_chat generators
InitStream == InitConversation(1..MaxMaxTurns, 1..MaxInterval) /\ IdleStore /\ IdleManager

NextStream ==
    \/ \E k \in Callers, first \in StreamOutcomes, out \in SummarizerOutcomes :
          StreamStart(k, first, out)
    \/ \E k \in Callers, next \in StreamOutcomes, out \in SummarizerOutcomes :
          StreamNext(k, next, out)
    \/ \E k \in Callers : StreamAbandon(k)

SpecStream == InitStream /\ [][NextStream]_vars

\* one conversation driven through chat and through stream_chat
CallsMade == chat.n + calls.n

\* the consumer that holds a generator while chat calls are made
TurnCaller == 1

NextTurn ==
    \/ \E out \in SummarizerOutcomes : CallsMade < MaxStreamCalls /\ Chat(TRUE, out)
    \/ CallsMade < MaxStreamCalls /\ Chat(FALSE, [ok |-> FALSE, text |-> ""])
    \/ \E first \in StreamOutcomes, out \in SummarizerOutcomes :
          CallsMade < MaxStreamCalls /\ StreamStart(TurnCaller, first, out)
    \/ \E next \in StreamOutcomes, out \in SummarizerOutcomes :
          StreamNext(TurnCaller, next, out)
    \/ StreamAbandon(TurnCaller)

SpecTurn == InitStream /\ [][NextTurn]_vars

\* no conversation takes part in SpecVec
IdleConversation ==
    /\ messages = <<>> /\ summary = "" /\ summaryTurn = 0 /\ maxTurns = 1
    /\ compressionMethod = "summary" /\ summaryInterval = 1
    /\ autoSave = FALSE /\ saveInterval = 1 /\ stored = Absent /\ indexEntry = Absent
    /\ appended = 0 /\ log = <<>> /\ covered = {}
    /\ chat = NoChats
    /\ calls = NoCalls

InitVec ==
    /\ InitStore
    /\ distanceMetric \in DistanceMetrics
    /\ hashOf \in HashSeeds
    /\ IdleConversation
    /\ IdleManager
    /\ lastOp = [op |-> "init"]

NextVec ==
    \/ \E batch \in Batches : AddDocuments(batch, TRUE)
    \/ \E batch \in [1..1 -> InputDocuments] : AddDocuments(batch, FALSE)
    \/ \E query \in Queries, top_k \in (-1)..MaxTopK, filter \in Filters \cup {NoneFilter} :
          Search(query, top_k, filter)
    \/ \E ids \in DeleteIdSets : Delete(ids)

SpecVec == InitVec /\ [][NextVec]_vars

\* writes of the snapshot that complete before a failure
PartialWrites == 0..2

\* the vector store with snapshot writes that fail part-way and restarts
\* one document per add, one id per delete
CrashBatches == [1..1 -> {[page_content |-> "AI", metadata |-> UserMeta]}]
CrashIdSets == {{id} : id \in CandidateIds \ {ExtId}}

NextCrash ==
    \/ \E batch \in CrashBatches :
          Max(Len(vectors), Len(metadataList)) + Len(batch) <= MaxDocs /\ AddDocuments(batch, TRUE)
    \/ \E ids \in CrashIdSets : Delete(ids)
    \/ \E batch \in CrashBatches, written \in PartialWrites :
          /\ Max(Len(vectors), Len(metadataList)) + Len(batch) <= MaxDocs
          /\ AddDocumentsInterrupted(batch, written)
    \/ \E ids \in CrashIdSets, written \in PartialWrites :
          DeleteInterrupted(ids, written)
    \/ Reopen

InitCrash == InitStore /\ IdleStore /\ IdleConversation /\ IdleManager /\ lastOp = [op |-> "init"]

SpecCrash == InitCrash /\ [][NextCrash]_vars

\* ConversationManager.__init__ on an empty storage directory
InitMgr ==
    /\ IdleManager
    /\ maxTurns \in 1..MaxMgrTurns
    /\ autoSave \in BOOLEAN
    /\ saveInterval \in 1..MaxSaveInterval
    /\ messages = <<>> /\ summary = "" /\ summaryTurn = 0
    /\ compressionMethod = "summary" /\ summaryInterval = 1
    /\ stored = Absent /\ indexEntry = Absent
    /\ appended = 0 /\ log = <<>> /\ covered = {}
    /\ chat = NoChats
    /\ calls = NoCalls
    /\ IdleStore
    /\ lastOp = [op |-> "init"]

NextMgr ==
    \/ \E id \in Ids : CreateConversation(id)
    \/ \E id \in Ids : LoadConversation(id)
    \/ \E id \in Ids : GetConversation(id)
    \/ \E id \in Ids, role \in MgrRoles : MgrAddMessageCall(id, role)
    \/ \E id \in Ids : SaveConversation(id)
    \/ ReadIndex
    \/ \E id \in Ids : DeleteConversation(id)
    \/ Restart

SpecMgr == InitMgr /\ [][NextMgr]_vars

\* one conversation that is written, summarized, saved and read back by a
\* new manager
RestoreId == "a"
RestoreRoles == {"user", "assistant"}

NextRestore ==
    \/ CreateConversation(RestoreId)
    \/ \E role \in RestoreRoles : MgrAddMessageCall(RestoreId, role)
    \/ \E out \in SummarizerOutcomes : UpdateSummaryOf(RestoreId, out)
    \/ SaveConversation(RestoreId)
    \/ GetConversation(RestoreId)
    \/ Restart

SpecRestore == InitMgr /\ [][NextRestore]_vars

\* ------------------------------------------------------------------ claims
LastMessage == messages[Len(messages)]
Turns == Len(messages) \div 2

\* C1: the history holds exactly the last min(n, 2*maxTurns) of the n appended
\* messages, in append order, and an add_message that overflows 2*maxTurns
\* leaves exactly 2*maxTurns messages and an empty summary with summaryTurn 0.
C1_LastMessagesKept ==
    /\ [](LET keep == Min(appended, 2 * maxTurns)
          IN /\ Len(log) = appended
             /\ messages = SubSeq(log, appended - keep + 1, appended))
    /\ [][(appended' = appended + 1 /\ Len(messages) + 1 > 2 * maxTurns)
            => (Len(messages') = 2 * maxTurns /\ summary' = "" /\ summaryTurn' = 0)]_vars

C1_Witness ==
    /\ lastOp.op = "add_message" /\ lastOp.trimmed /\ lastOp.hadSummary
    /\ appended > 2 * maxTurns
    /\ Len(messages) = 2 * maxTurns

\* C2: once delete(ids) has returned true, no chunk whose id (as add
\* returned it) is among ids is stored any longer, in memory or in an index
\* reloaded from the persisted snapshot.
C2_DeletedChunksGone ==
    [][\A ids \in DeleteIdSets :
          Delete(ids) =>
            /\ \A i \in 1..Len(documents') : assigned'[i] \notin ids
            /\ LET loaded == LoadData(vectorsFile', metadataFile', documentsFile')
               IN \A i \in 1..Len(loaded.documents) :
                     i <= Len(documents') /\ loaded.documents[i] = documents'[i]
                        => assigned'[i] \notin ids]_vars

\* C3: after every add or delete that returns successfully, an index loaded
\* from the three persisted artifacts equals the in-memory arrays.
C3_SnapshotMirrorsMemory ==
    (\/ lastOp.op = "add_documents" /\ ~lastOp.raised
     \/ lastOp.op = "delete" /\ lastOp.ret)
    => LoadData(vectorsFile, metadataFile, documentsFile) = Index

\* C4: on a populated index search(q, k), k >= 0, returns the first k (all if
\* fewer) of the chunks passing the filter, ordered by non-increasing score
\* with chunks of equal score in insertion order.
C4_TopKByScore ==
    \A query \in Queries, top_k \in 0..MaxTopK, filter \in Filters :
      documents # <<>> =>
        LET hits == SearchHits(query, top_k, filter)
            passing == {i \in 1..Len(vectors) :
                          \A key \in DOMAIN filter :
                             key \in DOMAIN metadataList[i]
                             /\ metadataList[i][key] = filter[key]}
            returned == {hits[j].idx : j \in 1..Len(hits)}
            score(i) == ComputeSimilarity(Embed(query), vectors[i])
            RanksBefore(i, j) ==
                \/ ScoreLess(score(j), score(i))
                \/ ~ScoreLess(score(i), score(j)) /\ i < j
        IN /\ Len(hits) = Min(top_k, Cardinality(passing))
           /\ returned \subseteq passing
           /\ \A j \in 1..Len(hits) : hits[j].score = score(hits[j].idx)
           /\ \A j \in 1..(Len(hits) - 1) :
                 /\ RanksBefore(hits[j].idx, hits[j + 1].idx)
                 /\ ~ScoreLess(hits[j].score, hits[j + 1].score)
           /\ \A i \in passing \ returned, j \in 1..Len(hits) : RanksBefore(hits[j].idx, i)

\* a search with top_k = 1 over two chunks of equal score and equal metadata
\* returned the one inserted first
C4_Witness ==
    /\ lastOp.op = "search"
    /\ Len(documents) = 2
    /\ documents[1].page_content = documents[2].page_content
    /\ metadataList[1] = metadataList[2]
    /\ "similarity_score" \in DOMAIN documents[1].metadata
    /\ "similarity_score" \notin DOMAIN documents[2].metadata

\* C5 as stated: driven by successful chat calls with a Summarizer that always
\* returns non-empty text, after the n-th turn (n <= maxTurns)
\* should_create_summary was true iff n is a multiple of the interval I,
\* summaryTurn = I * (n div I), and summary is non-empty iff n >= I.
C5_NonEmptySummarizer ==
    (/\ lastOp.op = "chat" /\ chat.allOk /\ chat.sumNonEmpty
     /\ compressionMethod = "summary" /\ chat.n <= maxTurns)
    => /\ lastOp.should <=> (chat.n % summaryInterval = 0)
       /\ summaryTurn = summaryInterval * (chat.n \div summaryInterval)
       /\ summary # "" <=> chat.n >= summaryInterval

\* C5 amended: the same for a Summarizer whose text is non-empty after
\* whitespace stripping.
C5_NonBlankSummarizer ==
    (/\ lastOp.op = "chat" /\ chat.allOk /\ chat.sumNonBlank
     /\ compressionMethod = "summary" /\ chat.n <= maxTurns)
    => /\ lastOp.should <=> (chat.n % summaryInterval = 0)
       /\ summaryTurn = summaryInterval * (chat.n \div summaryInterval)
       /\ summary # "" <=> chat.n >= summaryInterval

C5_Witness ==
    /\ lastOp.op = "chat" /\ chat.allOk /\ chat.sumNonBlank
    /\ compressionMethod = "summary"
    /\ summaryInterval = 3 /\ chat.n = 6 /\ maxTurns = 6
    /\ lastOp.should /\ summaryTurn = 6 /\ summary # ""

\* C6: should_create_summary is false whenever the last message is a user
\* message, whatever the message count, the summary state and the interval.
C6_FalseAfterUser ==
    (messages # <<>> /\ LastMessage.role = "user") => ~ShouldCreateSummary(Hist)

C6_Witness ==
    /\ messages # <<>> /\ LastMessage.role = "user"
    /\ compressionMethod = "summary"
    /\ Turns >= summaryInterval
    /\ summary # "" => Turns - summaryTurn >= summaryInterval

\* C7: should_create_summary is true only for a non-empty history whose last
\* message is an assistant message.
C7_TrueOnlyAfterAssistant ==
    ShouldCreateSummary(Hist) => (messages # <<>> /\ LastMessage.role = "assistant")

\* C8: after an assistant message and in mode "summary", should_create_summary
\* is true iff completedTurns >= interval and (no summary exists or
\* completedTurns - summaryTurn >= interval); in any other mode it is false.
C8_TriggerCondition ==
    /\ (compressionMethod = "summary" /\ messages # <<>> /\ LastMessage.role = "assistant")
         => (ShouldCreateSummary(Hist) <=>
               /\ Turns >= summaryInterval
               /\ (summary = "" \/ Turns - summaryTurn >= summaryInterval))
    /\ compressionMethod # "summary" => ~ShouldCreateSummary(Hist)

C8_Witness ==
    /\ compressionMethod = "summary"
    /\ messages # <<>> /\ LastMessage.role = "assistant"
    /\ summary # "" /\ Turns - summaryTurn = summaryInterval
    /\ ShouldCreateSummary(Hist)

\* C9: the summary was built from every message of the first summaryTurn
\* turns, and every message of the history is either one the summary was
\* built from or one build_context renders verbatim.
C9_SummaryCoversItsTurns ==
    /\ summary # "" =>
         \A i \in 1..(2 * summaryTurn) : i <= Len(messages) /\ messages[i].id \in covered
    /\ \A i \in 1..Len(messages) :
         \/ messages[i].id \in covered
         \/ \E j \in 1..Len(BuildContext(Hist, maxTurns).msgs) :
               BuildContext(Hist, maxTurns).msgs[j] = messages[i]

\* C10: summary == "" if and only if summaryTurn == 0.
C10_SummaryIffTurn == (summary = "") <=> (summaryTurn = 0)

C10_Witness ==
    /\ lastOp.op = "update_summary" /\ lastOp.ret /\ lastOp.hadSummary
    /\ summary # "" /\ summaryTurn > 0

\* C11 as stated: update_summary leaves messages, summary and summaryTurn
\* unchanged unless should_create_summary holds and the Summarizer returns
\* non-empty text; in that case summary becomes the returned text, summaryTurn
\* the completed-turn count, and messages stay as they were.
C11_NonEmptyTextCommitted ==
    [][\A out \in SummarizerOutcomes :
          (lastOp'.op = "update_summary" /\ Hist' = ContextUpdateSummary(Hist, out)) =>
            IF ShouldCreateSummary(Hist) /\ out.ok /\ out.text # ""
            THEN /\ summary' = out.text /\ summaryTurn' = Turns
                 /\ messages' = messages
            ELSE UNCHANGED <<messages, summary, summaryTurn>>]_vars

\* C11 amended: the history is unchanged unless should_create_summary holds
\* and the Summarizer returns text that is non-empty after whitespace
\* stripping; in that case summary becomes the stripped text, summaryTurn the
\* completed-turn count, and messages stay as they were.
C11_StrippedTextCommitted ==
    [][\A out \in SummarizerOutcomes :
          (lastOp'.op = "update_summary" /\ Hist' = ContextUpdateSummary(Hist, out)) =>
            IF ShouldCreateSummary(Hist) /\ out.ok /\ Strip(out.text) # ""
            THEN /\ summary' = Strip(out.text) /\ summaryTurn' = Turns
                 /\ messages' = messages
            ELSE UNCHANGED <<messages, summary, summaryTurn>>]_vars

C11_Witness ==
    /\ lastOp.op = "update_summary" /\ lastOp.ret /\ ~lastOp.hadSummary
    /\ summary = "s" /\ summaryTurn = Turns /\ Turns >= summaryInterval

\* C12 as stated: when the Summarizer fails in a chat call whose answer was
\* generated, the call returns, the turn's user and assistant messages are the
\* last two of the history and of the persisted record, and summary and
\* summaryTurn are what they were before the call.
C12_SummaryKeptOnFailure ==
    [][(lastOp'.op = "chat" /\ lastOp'.failed) =>
         /\ lastOp'.answered
         /\ Len(messages') >= 2
         /\ messages'[Len(messages') - 1] = [role |-> "user", id |-> appended + 1]
         /\ messages'[Len(messages')] = [role |-> "assistant", id |-> appended + 2]
         /\ stored' # Absent /\ stored'.messages = messages'
         /\ summary' = summary /\ summaryTurn' = summaryTurn]_vars

\* C12 amended: the same, with summary and summaryTurn what they were before
\* the call unless appending the turn's two messages took the history past
\* 2*maxTurns messages, in which case they are "" and 0.
C12_SummaryKeptOrTrimmed ==
    [][(lastOp'.op = "chat" /\ lastOp'.failed) =>
         /\ lastOp'.answered
         /\ Len(messages') >= 2
         /\ messages'[Len(messages') - 1] = [role |-> "user", id |-> appended + 1]
         /\ messages'[Len(messages')] = [role |-> "assistant", id |-> appended + 2]
         /\ stored' # Absent /\ stored'.messages = messages'
         /\ stored'.summary = summary' /\ stored'.summary_turn = summaryTurn'
         /\ IF Len(messages) + 2 > 2 * maxTurns
            THEN summary' = "" /\ summaryTurn' = 0
            ELSE summary' = summary /\ summaryTurn' = summaryTurn]_vars

\* the Summarizer failed in a call that found a summary and left it in place
C12_Witness ==
    /\ lastOp.op = "chat" /\ lastOp.answered /\ lastOp.failed
    /\ summary # "" /\ summaryTurn > 0 /\ Turns - summaryTurn >= summaryInterval
    /\ stored # Absent /\ stored.messages = messages /\ stored.summary = summary

C14_RenderedMessages ==
    \A mt \in 0..(MaxMaxTurns + 1) :
      LET r == BuildContext(Hist, mt)
          max_turns == IF mt = 0 THEN ContextConfigMaxTurns ELSE mt
          n == Len(messages)
      IN IF summary # ""
         THEN /\ r.summary = summary
              /\ Len(r.msgs) = n - 2 * summaryTurn
              /\ \A j \in 1..Len(r.msgs) : r.msgs[j] = messages[2 * summaryTurn + j]
         ELSE /\ r.summary = ""
              /\ Len(r.msgs) = Min(n, 2 * max_turns)
              /\ \A j \in 1..Len(r.msgs) : r.msgs[j] = messages[n - Len(r.msgs) + j]

\* a summary covering the first turn, followed by one more message
C14_Witness ==
    /\ summary # "" /\ summaryTurn = 1
    /\ Len(messages) = 2 * summaryTurn + 1
    /\ BuildContext(Hist, 0).msgs = <<LastMessage>>

\* C15: no persisted record ends with a user message, and after a chat call
\* that failed in retrieval or generation the cached history does not end
\* with a user message either (the code writes no failure record).
C15_NoOrphanUserMessage ==
    /\ (stored # Absent /\ stored.messages # <<>>)
          => stored.messages[Len(stored.messages)].role # "user"
    /\ (lastOp.op = "chat" /\ ~lastOp.answered /\ messages # <<>>)
          => LastMessage.role # "user"

\* C16: between chat calls the history holds an even number of messages that
\* alternate user, assistant, starting with user.
C16_CompleteTurns ==
    /\ Len(messages) % 2 = 0
    /\ \A i \in 1..Len(messages) :
          messages[i].role = IF i % 2 = 1 THEN "user" ELSE "assistant"

\* C17: add_message for an id with no cache entry and no persisted record
\* raises and leaves the cache, the records and the index as they were.
C17_AddToAbsentChangesNothing ==
    [][\A id \in Ids, role \in MgrRoles :
          (/\ MgrAddMessageCall(id, role)
           /\ id \notin DOMAIN conversations /\ id \notin DOMAIN records)
          => lastOp'.raised /\ UNCHANGED mgrVars]_vars

\* add_message raised while another conversation is cached and persisted
C17_Witness ==
    /\ lastOp.op = "add_message" /\ lastOp.raised
    /\ DOMAIN conversations = DOMAIN records
    /\ Cardinality(DOMAIN records) = 1 /\ Len(index) = 1

\* C18: no manager operation other than delete_conversation(id) removes the
\* conversation id from the cache, the records or the index, or replaces its
\* non-empty cached history or its non-empty record by an empty one.
C18_OnlyDeleteRemoves ==
    [][\A id \in Ids :
          ~DeleteConversation(id) =>
             /\ (lastOp'.op # "restart" /\ id \in DOMAIN conversations) =>
                   /\ id \in DOMAIN conversations'
                   /\ conversations[id].messages # <<>>
                         => conversations'[id].messages # <<>>
             /\ id \in DOMAIN records =>
                   /\ id \in DOMAIN records'
                   /\ records[id].messages # <<>> => records'[id].messages # <<>>
             /\ (\E i \in 1..Len(index) : index[i].conversation_id = id)
                   => \E i \in 1..Len(index') : index'[i].conversation_id = id]_vars

\* C19: get_conversation(id) returns None exactly when id has no cache entry
\* and no record; on a hit it returns the cached history without reading the
\* store; on a miss with a record it reads the record, caches the history and
\* returns it; and a cached history stays the one returned for its id until
\* delete_conversation(id).
C19_GetConversation ==
    /\ [](\A id \in Ids :
            LET g == MgrGetConversation(Mgr, id)
                hit == id \in DOMAIN conversations
                rec == id \in DOMAIN records
            IN /\ (g.ret = None) <=> (~hit /\ ~rec)
               /\ hit => g.ret = conversations[id] /\ ~g.read /\ g.m = Mgr
               /\ (~hit /\ rec) =>
                     /\ g.read
                     /\ g.ret.messages = records[id].messages
                     /\ g.ret.summary = records[id].summary
                     /\ g.ret.summary_turn = records[id].summary_turn
                     /\ g.m.conversations = DictPut(conversations, id, g.ret)
                     /\ g.m.records = records /\ g.m.index = index
                     /\ MgrGetConversation(g.m, id).ret = g.ret)
    /\ [][\A id \in Ids :
            (/\ id \in DOMAIN conversations
             /\ ~DeleteConversation(id) /\ lastOp'.op # "restart")
            => /\ id \in DOMAIN conversations'
               /\ conversations'[id].oid = conversations[id].oid]_vars

\* C20: delete_conversation(id) returns true and leaves id without cache
\* entry, record and index entry, so that get_conversation(id) is None and
\* list_conversations has no entry for id; the other conversations keep their
\* cache entries, records and index entries; a second call, or a call for an
\* id that was never there, returns true and changes nothing.
C20_DeleteIsIdempotent ==
    /\ \A id \in Ids :
         LET d == MgrDeleteConversation(Mgr, id)
             d2 == MgrDeleteConversation(d.m, id)
             others(idx) == SelectSeq(idx, LAMBDA c : c.conversation_id # id)
             known == \/ id \in DOMAIN conversations \/ id \in DOMAIN records
                      \/ \E i \in 1..Len(index) : index[i].conversation_id = id
         IN /\ d.ret
            /\ id \notin DOMAIN d.m.conversations /\ id \notin DOMAIN d.m.records
            /\ MgrGetConversation(d.m, id).ret = None
            /\ \A i \in 1..Len(ListConversations(d.m)) :
                  ListConversations(d.m)[i].conversation_id # id
            /\ \A other \in Ids \ {id} :
                  /\ other \in DOMAIN conversations <=> other \in DOMAIN d.m.conversations
                  /\ other \in DOMAIN conversations
                        => d.m.conversations[other] = conversations[other]
                  /\ other \in DOMAIN records <=> other \in DOMAIN d.m.records
                  /\ other \in DOMAIN records => d.m.records[other] = records[other]
            /\ others(d.m.index) = others(index)
            /\ d2.ret /\ d2.m = d.m
            /\ ~known => d.m = Mgr
    /\ lastOp.op = "delete_conversation" =>
         /\ lastOp.ret
         /\ lastOp.id \notin DOMAIN conversations /\ lastOp.id \notin DOMAIN records
         /\ \A i \in 1..Len(index) : index[i].conversation_id # lastOp.id

\* "a" was deleted while "b" stays cached, persisted and listed
C20_Witness ==
    /\ lastOp.op = "delete_conversation" /\ lastOp.id = "a" /\ lastOp.ret
    /\ DOMAIN conversations = {"b"} /\ DOMAIN records = {"b"}
    /\ Len(index) = 1 /\ index[1].conversation_id = "b"
    /\ conversations["b"].messages # <<>>

\* C21: delete([]) returns true, leaves the three in-memory arrays as they
\* were and writes none of the three persisted artifacts.
C21_DeleteNothing ==
    [][(lastOp'.op = "delete" /\ Delete({})) =>
         /\ lastOp'.ret
         /\ UNCHANGED <<vectors, metadataList, documents>>
         /\ UNCHANGED <<vectorsFile, metadataFile, documentsFile>>]_vars

\* delete([]) on an index whose stored documents differ from the snapshot
C21_Witness ==
    /\ lastOp.op = "delete" /\ lastOp.empty /\ lastOp.ret
    /\ documents # <<>>
    /\ documentsFile.exists /\ documentsFile.data # documents

\* the ids under which chunk i is stored: the id add returned for it and the
\* "id" of its metadata
IdsOfChunk(i) ==
    {assigned[i]} \cup {id \in CandidateIds : MetaGetIs(metadataList[i], "id", id)}

\* C22: delete(ids) with none of the ids assigned to a stored chunk returns
\* true and leaves the stored chunks unchanged.
C22_DeleteUnassignedIsNoOp ==
    [][\A ids \in DeleteIdSets :
          (/\ lastOp'.op = "delete" /\ Delete(ids)
           /\ \A i \in 1..Len(documents) : IdsOfChunk(i) \cap ids = {})
          => /\ lastOp'.ret
             /\ UNCHANGED <<vectors, metadataList, documents>>]_vars

\* C23: a search with a filter returns only chunks whose metadata has every
\* filter key with the filter's value, in non-increasing score order.
C23_FilterExactMatch ==
    \A query \in Queries, top_k \in 0..MaxTopK, filter \in Filters \cup {NoneFilter} :
       LET hits == SearchHits(query, top_k, filter)
       IN /\ \A j \in 1..Len(hits) :
                \A key \in DOMAIN filter :
                   /\ key \in DOMAIN metadataList[hits[j].idx]
                   /\ metadataList[hits[j].idx][key] = filter[key]
          /\ \A j \in 1..(Len(hits) - 1) : ~ScoreLess(hits[j].score, hits[j + 1].score)

\* C24: the ids add returned for the stored chunks are pairwise different,
\* and the id under which delete recognises a stored chunk is the id add
\* returned for it.
C24_IdsUniqueAndStable ==
    /\ \A i, j \in 1..Len(assigned) : i # j => assigned[i] # assigned[j]
    /\ \A i \in 1..Len(documents) :
          DocId(i - 1, documents[i].page_content) = assigned[i]

\* C25: an add whose embedding call fails raises and changes neither the
\* in-memory arrays nor the persisted artifacts; an add that succeeds stores
\* the chunks of the batch in input order and returns one id per chunk.
C25_AddAllOrNothing ==
    [][lastOp'.op = "add_documents" =>
         /\ \A batch \in [1..1 -> InputDocuments] :
               AddDocuments(batch, FALSE) =>
                 /\ lastOp'.raised
                 /\ UNCHANGED <<vectors, metadataList, documents>>
                 /\ UNCHANGED <<vectorsFile, metadataFile, documentsFile>>
         /\ \A batch \in Batches :
               (AddDocuments(batch, TRUE) /\ ~lastOp'.raised) =>
                 /\ Len(vectors') = Len(vectors) + Len(batch)
                 /\ Len(metadataList') = Len(metadataList) + Len(batch)
                 /\ Len(assigned') = Len(assigned) + Len(batch)
                 /\ documents' = documents \o batch
                 /\ \A i \in 1..Len(batch) :
                       /\ vectors'[Len(vectors) + i] = Embed(batch[i].page_content)
                       /\ metadataList'[Len(metadataList) + i] = batch[i].metadata
         /\ lastOp'.raised => UNCHANGED <<vectors, metadataList, documents,
                                          vectorsFile, metadataFile, documentsFile>>]_vars

\* an add raised on an index that holds a chunk
C25_Witness ==
    /\ lastOp.op = "add_documents" /\ lastOp.raised
    /\ Len(documents) = 1 /\ Len(vectors) = 1 /\ Len(assigned) = 1
    /\ documentsFile.exists /\ Len(documentsFile.data) = 1

\* C26: a load yields an empty index unless the three artifacts are all
\* present and hold arrays of equal length, and never an index whose three
\* arrays differ in length.
C26_LoadAllOrEmpty ==
    LET loaded == LoadData(vectorsFile, metadataFile, documentsFile)
        complete ==
            /\ vectorsFile.exists /\ metadataFile.exists /\ documentsFile.exists
            /\ Len(vectorsFile.data) = Len(metadataFile.data)
            /\ Len(metadataFile.data) = Len(documentsFile.data)
    IN /\ ~complete =>
            loaded.vectors = <<>> /\ loaded.metadata_list = <<>> /\ loaded.documents = <<>>
       /\ Len(loaded.vectors) = Len(loaded.metadata_list)
       /\ Len(loaded.metadata_list) = Len(loaded.documents)

\* C27: a search leaves the stored vectors, metadata and documents as they
\* were.
C27_SearchReadsOnly ==
    [][lastOp'.op = "search" => UNCHANGED <<vectors, metadataList, documents>>]_vars

\* the sequence holds two consecutive user messages
ConsecutiveUsers(s) ==
    \E i \in 1..(Len(s) - 1) : s[i].role = "user" /\ s[i + 1].role = "user"

\* C28 (as stated): when the consumer of stream_chat stops pulling before the
\* stream is exhausted, that call has appended no assistant message, has run
\* no summarization, and has run no save, so nothing of it is persisted.
C28_AbandonedCallSavesNothing ==
    lastOp.op = "stream_abandon" =>
        LET d == calls.did[lastOp.caller]
        IN ~d.assistant /\ ~d.summarized /\ ~d.saved

\* C29: calls on one conversation that are not serialized are unsafe: while
\* no call has failed or been abandoned and the history has not been trimmed,
\* the history holds two consecutive user messages exactly when a stream_chat
\* call was started while another one was suspended at its yield.
C29_OverlapBreaksAlternation ==
    (calls.clean /\ appended <= 2 * maxTurns) =>
        (calls.overlapped <=> ConsecutiveUsers(messages))

\* two generators consumed alternately, both to exhaustion: the history reads
\* user, user, assistant, assistant
C29_Witness ==
    /\ calls.clean /\ calls.overlapped
    /\ \A k \in Callers : calls.pc[k] = "idle" /\ calls.did[k].assistant
    /\ Len(messages) = 4
    /\ messages[1].role = "user" /\ messages[2].role = "user"
    /\ messages[3].role = "assistant" /\ messages[4].role = "assistant"

\* C30: with auto_save, add_message rewrites the persisted record exactly when
\* get_turns() % save_interval = 0 for the turn count after the append and the
\* trim; without auto_save it never writes.
C30_AutoSaveOnInterval ==
    [][lastOp'.op = "add_message" =>
        IF autoSave /\ (Len(messages') \div 2) % saveInterval = 0
        THEN stored' = ToDict(Hist') /\ stored' # stored
        ELSE stored' = stored]_vars

\* an add_message under auto_save that did not write: one turn, interval two
C30_Witness ==
    /\ lastOp.op = "add_message" /\ autoSave /\ saveInterval = 2
    /\ Len(messages) = 2 /\ appended = 2
    /\ stored # ToDict(Hist) /\ stored # Absent
    /\ Len(stored.messages) = 1

C36_OneCommitPerInterval ==
    [][(/\ lastOp'.op = "chat" /\ chat'.allOk
        /\ chat'.commitAt = chat'.n /\ chat.commitAt > 0)
       => chat'.n - chat.commitAt >= summaryInterval]_vars

\* C37: 0 <= summary_turn <= get_turns() in every state reached by
\* add_message and update_summary, so messages[summary_turn * 2:] starts
\* within the list.
C37_SummaryTurnInRange ==
    /\ 0 <= summaryTurn /\ summaryTurn <= Turns
    /\ 2 * summaryTurn <= Len(messages)

\* a summary committed at the last complete turn, an unanswered message after it
C37_Witness ==
    /\ summary # "" /\ summaryTurn = 1 /\ Len(messages) = 3
    /\ lastOp.op = "add_message"

\* the entries index.json holds for a conversation id
EntriesOf(idx, id) == {i \in 1..Len(idx) : idx[i].conversation_id = id}

\* C32: the index holds at most one entry per conversation id and
\* total_conversations is the number of entries; the entry of a saved
\* conversation carries the get_turns() of the history saved, and a call that
\* saves one conversation leaves the entry of every other conversation as it was.
C32_IndexEntries ==
    /\ [](/\ \A id \in Ids : Cardinality(EntriesOf(index, id)) <= 1
          /\ totalConversations = Len(index)
          /\ \A id \in DOMAIN records : \A i \in EntriesOf(index, id) :
                index[i].total_turns = Len(records[id].messages) \div 2)
    /\ [][lastOp'.op \in {"create_conversation", "add_message", "save_conversation"} =>
            \A id \in Ids :
                (/\ id \in DOMAIN records /\ id \in DOMAIN records'
                 /\ records'[id] = records[id])
                => {index'[i] : i \in EntriesOf(index', id)}
                     = {index[i] : i \in EntriesOf(index, id)}]_vars

\* two conversations saved, the first with one complete turn
C32_Witness ==
    /\ lastOp.op = "save_conversation"
    /\ Len(index) = 2 /\ totalConversations = 2
    /\ index[1].conversation_id # index[2].conversation_id
    /\ index[1].total_turns = 1 /\ index[2].total_turns = 0
    /\ Len(records[index[1].conversation_id].messages) = 2

\* C38: list_conversations has an entry for an id exactly when a persisted
\* record of that id exists: every listed conversation loads and every
\* persisted conversation is listed.
C38_ListedIffPersisted ==
    /\ {c.conversation_id : c \in {ListConversations(Mgr)[i] :
                                     i \in 1..Len(ListConversations(Mgr))}}
         = DOMAIN records
    /\ \A i \in 1..Len(ListConversations(Mgr)) :
          StorageLoadConversation(Mgr, ListConversations(Mgr)[i].conversation_id, 0) # None

\* one conversation deleted while the other stays listed and persisted, its
\* cached history ahead of its record
C38_Witness ==
    /\ lastOp.op = "delete_conversation" /\ lastOp.id = "b"
    /\ DOMAIN records = {"a"} /\ Len(index) = 1
    /\ "a" \in DOMAIN conversations
    /\ Len(conversations["a"].messages) > Len(records["a"].messages)

\* the fields of a history that a save and a reload must keep; a message's
\* role stands for its role, content and timestamp
SameHistory(g, h) ==
    /\ g.conversation_id = h.conversation_id
    /\ Len(g.messages) = Len(h.messages)
    /\ \A i \in 1..Len(g.messages) : g.messages[i].role = h.messages[i].role
    /\ g.max_turns = h.max_turns
    /\ g.summary = h.summary
    /\ g.summary_turn = h.summary_turn

\* C34: after save_conversation, get_conversation through a manager whose
\* cache is empty returns a history with the conversation id, the messages in
\* their order, max_turns, summary and summary_turn of the history saved; and
\* a get_conversation that reads the store caches what the record holds.
C34_SaveThenGetRoundTrip ==
    [][/\ (lastOp'.op = "save_conversation" /\ RestoreId \in DOMAIN conversations') =>
            LET restarted == [Mgr' EXCEPT !.conversations = EmptyDict]
                got == MgrGetConversation(restarted, RestoreId).ret
            IN got # None /\ SameHistory(got, conversations'[RestoreId])
       /\ (lastOp'.op = "get_conversation" /\ lastOp'.read
           /\ RestoreId \in DOMAIN records) =>
            /\ RestoreId \in DOMAIN conversations'
            /\ SameHistory(conversations'[RestoreId], records[RestoreId])]_vars

\* a history with a complete turn and a summary, read back from its record
C34_Witness ==
    /\ lastOp.op = "get_conversation" /\ lastOp.read
    /\ RestoreId \in DOMAIN conversations
    /\ conversations[RestoreId].summary # ""
    /\ conversations[RestoreId].summary_turn = 1
    /\ Len(conversations[RestoreId].messages) = 2

\* C33: when a chat call returns, and when a stream_chat stream has been
\* consumed to exhaustion, the persisted record holds the messages, summary
\* and summary_turn of the in-memory history, and the index entry's
\* total_turns is get_turns().
C33_PersistedEqualsMemory ==
    (\/ lastOp.op = "chat" /\ lastOp.answered
     \/ lastOp.op \in {"stream_start", "stream_next"} /\ lastOp.outcome = "exhausted")
    => /\ stored # Absent
       /\ stored.messages = messages
       /\ stored.summary = summary
       /\ stored.summary_turn = summaryTurn
       /\ indexEntry # Absent
       /\ indexEntry.total_turns = Turns

\* a stream consumed to exhaustion whose call committed a summary, without
\* auto_save
C33_Witness ==
    /\ lastOp.op = "stream_next" /\ lastOp.outcome = "exhausted"
    /\ ~autoSave
    /\ summary # "" /\ summaryTurn = Turns /\ Turns = 2
    /\ stored # Absent /\ stored.summary = summary

\* C31: when the snapshot write of add or delete fails or the process stops
\* part-way, the persisted snapshot is the complete state before the call or
\* the complete state after it: the three artifacts are those of one state,
\* and a load yields one of the two.
C31_SnapshotAllOrNothing ==
    [][lastOp'.op \in {"add_documents_interrupted", "delete_interrupted"} =>
        LET before == <<vectorsFile, metadataFile, documentsFile>>
            after == <<vectorsFile', metadataFile', documentsFile'>>
            complete == <<IF vectors' # <<>> THEN Written(vectors') ELSE vectorsFile,
                          Written(metadataList'), Written(documents')>>
        IN /\ after = before \/ after = complete
           /\ LoadData(vectorsFile', metadataFile', documentsFile')
                \in {LoadData(vectorsFile, metadataFile, documentsFile), Index'}]_vars

====
